---- MODULE Spec2Model ----
(***************************************************************************)
(* Shopifake operator scripts.                                             *)
(*                                                                         *)
(*   scripts/seed_from_csv.py    the CSV seeder: load_rows, then for every  *)
(*                               row ensure site, ensure category, ensure  *)
(*                               filters, create product, price, inventory *)
(*   scripts/lock/lib.py         the lock generator: list_submodules,      *)
(*                               load_image_metadata, build_service_locks, *)
(*                               build_lock_payload, dump_lock             *)
(*   scripts/lock/generate_lock.py   its command line and main             *)
(*                                                                         *)
(* The seeder is a sequential program; it is cut into one action per       *)
(* blocking HTTP exchange (plus the local code that follows it up to the   *)
(* next exchange).  The gateway is the environment: it answers from its    *)
(* stored sites, categories and filters, or fails the request.             *)
(***************************************************************************)
EXTENDS Integers, Sequences, FiniteSets, TLC

(***************************************************************************)
(* Bounds of the model.                                                    *)
(***************************************************************************)
MaxLines == 2
MaxRuns == 2
MaxExternal == 1

(***************************************************************************)
(* Strings.  A text is a Python str; the conversions the code applies      *)
(* (strip, lower, substring tests) are computed on a small alphabet of     *)
(* texts.                                                                  *)
(***************************************************************************)
None == "<None>"

\* str.strip(): the texts that carry surrounding white space
Strip(s) ==
  CASE s = " "       -> ""
    [] s = " Shoes " -> "Shoes"
    [] OTHER         -> s

\* str.lower()
Lower(s) ==
  CASE s = "Shoes"     -> "shoes"
    [] s = "Hats"      -> "hats"
    [] s = "SCHEDULED" -> "scheduled"
    [] s = "DRAFT"     -> "draft"
    [] OTHER           -> s

\* str.upper()
Upper(s) ==
  CASE s = "scheduled" -> "SCHEDULED"
    [] s = "Scheduled" -> "SCHEDULED"
    [] s = "draft"     -> "DRAFT"
    [] OTHER           -> s

\* (raw.get(field) or "").strip()
Field(raw, f) == Strip(IF raw[f] = None THEN "" ELSE raw[f])

(***************************************************************************)
(* JSON texts of the CSV columns filter_definitions and product_filters.   *)
(***************************************************************************)
OtherSiteId == [kind |-> "site", n |-> 0, name |-> "other"]
NoId == [kind |-> "none", n |-> 0, name |-> ""]

Def(k, t, s) == [key |-> k, type |-> t, siteId |-> s]

\* json.loads of a filter_definitions text
FilterDefinitionsJson(text) ==
  CASE text = "[k1:QUANTITATIVE]"          -> << Def("k1", "QUANTITATIVE", NoId) >>
    [] text = "[k1:TEXT@other]"            -> << Def("k1", "TEXT", OtherSiteId) >>
    [] text = "[k1:TEXT,k1:TEXT]"          -> << Def("k1", "TEXT", NoId), Def("k1", "TEXT", NoId) >>
    [] text = "[]"                         -> << >>
    [] OTHER                               -> << >>

\* json.loads of a product_filters text, as the items() of the dict
ProductFiltersJson(text) ==
  CASE text = "{k1:42}"  -> << [key |-> "k1", value |-> "42"] >>
    [] text = "{k1:red}" -> << [key |-> "k1", value |-> "red"] >>
    [] text = "{k2:red}" -> << [key |-> "k2", value |-> "red"] >>
    [] OTHER             -> << >>

\* parse_json_field(name) or default
ParseFilterDefinitions(raw) ==
  LET value == Field(raw, "filter_definitions")
  IN  IF value = "" THEN << >> ELSE FilterDefinitionsJson(value)

ParseProductFilters(raw) ==
  LET value == Field(raw, "product_filters")
  IN  IF value = "" THEN << >> ELSE ProductFiltersJson(value)

\* [item.strip() for item in raw.split("|") if item.strip()]
ParseImages(raw) ==
  LET value == IF raw["product_images"] = None THEN "" ELSE raw["product_images"]
  IN  CASE value = ""      -> << >>
        [] value = " "     -> << >>
        [] value = "|"     -> << >>
        [] value = "u1|u2" -> << "u1", "u2" >>
        [] OTHER           -> << value >>

(***************************************************************************)
(* _normalize_row                                                          *)
(***************************************************************************)
RequiredTextFields ==
  << "site_key", "site_name", "site_slug", "site_description", "site_currency",
     "site_language", "site_config", "category_name", "product_name",
     "product_description", "product_sku", "price_currency" >>

Normalized(raw) ==
  [ site_key            |-> Field(raw, "site_key"),
    site_name           |-> Field(raw, "site_name"),
    site_slug           |-> Field(raw, "site_slug"),
    site_description    |-> Field(raw, "site_description"),
    site_currency       |-> Field(raw, "site_currency"),
    site_language       |-> Field(raw, "site_language"),
    site_config         |-> Field(raw, "site_config"),
    category_name       |-> Field(raw, "category_name"),
    filter_definitions  |-> ParseFilterDefinitions(raw),
    product_name        |-> Field(raw, "product_name"),
    product_description |-> Field(raw, "product_description"),
    product_images      |-> ParseImages(raw),
    product_sku         |-> Field(raw, "product_sku"),
    product_status      |-> IF Field(raw, "product_status") = "" THEN "DRAFT"
                            ELSE Field(raw, "product_status"),
    product_scheduled_publish_at |->
                            IF Field(raw, "product_scheduled_publish_at") = "" THEN None
                            ELSE Field(raw, "product_scheduled_publish_at"),
    product_filters     |-> ParseProductFilters(raw),
    price_amount        |-> IF Field(raw, "price_amount") = "" THEN None
                            ELSE Field(raw, "price_amount"),
    price_currency      |-> Field(raw, "price_currency"),
    price_effective_from |-> IF Field(raw, "price_effective_from") = "" THEN None
                            ELSE Field(raw, "price_effective_from"),
    price_effective_to  |-> IF Field(raw, "price_effective_to") = "" THEN None
                            ELSE Field(raw, "price_effective_to"),
    inventory_initial_quantity |->
                            IF Field(raw, "inventory_initial_quantity") = "" THEN None
                            ELSE Field(raw, "inventory_initial_quantity") ]

\* the keys whose value is "" or [] and that are not exempt
MissingFields(n) ==
  { RequiredTextFields[k] : k \in { j \in 1..Len(RequiredTextFields) :
                                       n[RequiredTextFields[j]] = "" } }

\* the message of the ValueError _normalize_row raises, or None when it returns
\* (the amounts and quantities of the model's files are numerals, so float()
\* and int() return)
NormalizeError(raw) ==
  LET n == Normalized(raw)
  IN  IF ParseImages(raw) = << >>
        THEN "product_images must include at least one URL"
      ELSE IF Upper(n.product_status) = "SCHEDULED" /\ n.product_scheduled_publish_at = None
        THEN "product_scheduled_publish_at is required"
      ELSE IF n.price_amount = None \/ n.price_currency = ""
        THEN "price_amount and price_currency are required"
      ELSE IF n.inventory_initial_quantity = None
        THEN "inventory_initial_quantity is required"
      ELSE IF MissingFields(n) # {}
        THEN "Missing required fields"
      ELSE None

(***************************************************************************)
(* The CSV files of the model: every line after the header is the blank    *)
(* line or a record.                                                       *)
(***************************************************************************)
BaseRaw ==
  [ site_key |-> "A", site_name |-> "Shop", site_slug |-> "s1",
    site_description |-> "d", site_currency |-> "EUR", site_language |-> "en",
    site_config |-> "{}", category_name |-> " Shoes ",
    filter_definitions |-> "[k1:QUANTITATIVE]",
    product_name |-> "p", product_description |-> "pd", product_images |-> "u1|u2",
    product_sku |-> "sku", product_status |-> "", product_scheduled_publish_at |-> "",
    product_filters |-> "{k1:42}", price_amount |-> "9.99", price_currency |-> "EUR",
    price_effective_from |-> "", price_effective_to |-> "",
    inventory_initial_quantity |-> "0" ]

\* a line csv.DictReader reads as the empty row []
Blank == [ f \in DOMAIN BaseRaw |-> "<blank line>" ]

ValidRaws ==
  { BaseRaw,
    [BaseRaw EXCEPT !.site_slug = "s2", !.category_name = "shoes",
                    !.filter_definitions = "", !.product_filters = "{k1:42}"],
    [BaseRaw EXCEPT !.site_key = "B", !.category_name = "Hats",
                    !.filter_definitions = "[k1:TEXT@other]", !.product_filters = ""],
    [BaseRaw EXCEPT !.site_key = "B", !.site_slug = "s2",
                    !.filter_definitions = "[k1:TEXT,k1:TEXT]",
                    !.product_filters = "{k1:red}"],
    [BaseRaw EXCEPT !.category_name = "Hats", !.filter_definitions = "[]",
                    !.product_filters = "{k2:red}"] }

InvalidRaws ==
  { [BaseRaw EXCEPT !.site_key = " "],
    [BaseRaw EXCEPT !.category_name = None],
    [BaseRaw EXCEPT !.product_images = "|"],
    [BaseRaw EXCEPT !.price_amount = ""],
    [BaseRaw EXCEPT !.price_currency = " "],
    [BaseRaw EXCEPT !.inventory_initial_quantity = ""],
    [BaseRaw EXCEPT !.product_status = "scheduled"] }

Lines == ValidRaws \cup InvalidRaws \cup {Blank}

CsvFiles == UNION { [1..len -> Lines] : len \in 0..MaxLines }

\* enumerate(reader, start=2)
FirstRowIndex == 2

\* csv.DictReader: the rows of the file, the blank lines skipped
RECURSIVE Records(_)
Records(lines) ==
  IF lines = << >> THEN << >>
  ELSE IF Head(lines) = Blank THEN Records(Tail(lines))
       ELSE << Head(lines) >> \o Records(Tail(lines))

\* the position in the reader's rows of the first row _normalize_row rejects, or 0
FirstRejected(records) ==
  LET bad == { k \in 1..Len(records) : NormalizeError(records[k]) # None }
  IN  IF bad = {} THEN 0 ELSE CHOOSE k \in bad : \A j \in bad : k <= j

(***************************************************************************)
(* HTTP.  A request either gets the gateway's answer or fails.             *)
(***************************************************************************)
HttpError(status, body) == [type |-> "HttpError", status |-> status, msg |-> body, row |-> 0]
RuntimeError(msg) == [type |-> "RuntimeError", status |-> 0, msg |-> msg, row |-> 0]
ValueError(row, msg) == [type |-> "ValueError", status |-> 0, msg |-> msg, row |-> row]
NoError == [type |-> "none", status |-> 0, msg |-> "", row |-> 0]

\* the failures any request can meet: urlerror.HTTPError -> HttpError, and
\* urlerror.URLError -> RuntimeError("Failed to reach ...")
GenericFailures ==
  { HttpError(400, "Bad request"),
    HttpError(500, "Slug index down: site not found"),
    RuntimeError("Failed to reach") }

\* what the Sites service answers for a slug it does not hold
SiteNotFoundAnswers ==
  { HttpError(404, "Not Found"), HttpError(400, "Site not found") }

\* what the Sites service answers when it refuses the slug of a new site
SlugTaken == HttpError(400, "Slug already exists")
SlugInvalid == HttpError(400, "Invalid slug format")

\* needle in body.lower()
InLower(needle, body) ==
  CASE needle = "slug" ->
         body \in { "Slug already exists", "Invalid slug format",
                    "Slug index down: site not found" }
    [] needle = "site not found" ->
         body \in { "Site not found", "Slug index down: site not found" }
    [] OTHER -> FALSE

(***************************************************************************)
(* State.                                                                  *)
(***************************************************************************)
VARIABLES
  csv,             \* the lines of the CSV file after its header
  dry_run,         \* --dry-run
  run,             \* the number of this invocation of the script
  pc,              \* where the script is
  rows,            \* load_rows' result
  i,               \* process_rows: the position of the current row
  j,               \* _ensure_filter_definitions: the position of the current definition
  site,            \* process_rows: site
  category,        \* process_rows: category
  filter_assignments, \* process_rows: filter_assignments
  product_id,      \* process_rows: product_id
  site_cache,      \* Seeder.site_cache
  category_cache,  \* Seeder.category_cache
  filter_cache,    \* Seeder.filter_cache
  error,           \* the exception that ended the invocation
  log,             \* every HTTP request sent, in order, with its outcome
  resolved,        \* per invocation, the ids each row was resolved to
  sv_sites,        \* Sites service: the sites held
  sv_categories,   \* Catalog service: the categories held
  sv_filters,      \* Catalog service: the filters held
  sv_next,         \* the gateway's next fresh id
  ext              \* sites created by other clients so far

seeder_vars ==
  << csv, dry_run, run, pc, rows, i, j, site, category, filter_assignments, product_id,
     site_cache, category_cache, filter_cache, error, log, resolved,
     sv_sites, sv_categories, sv_filters, sv_next, ext >>

\* the state of the lock generator (scripts/lock)
VARIABLES
  arg_services,        \* --services
  arg_image_metadata,  \* the file --image-metadata names
  arg_default_tag_prefix, \* --default-tag-prefix
  arg_default_registry,   \* --default-registry
  git_status,          \* what git submodule status prints
  lk_pc,               \* where generate_lock.main is
  image_metadata,      \* main: image_metadata
  locks,               \* build_service_locks: locks
  lk_error,            \* the exception that ended main
  arg_force,           \* --force
  lock_payload,        \* main: payload
  fs_output            \* the file at the output path

lock_vars ==
  << arg_services, arg_image_metadata, arg_default_tag_prefix, arg_default_registry,
     git_status, lk_pc, image_metadata, locks, lk_error, arg_force,
     lock_payload, fs_output >>

Empty == [x \in {} |-> NoId]

NoSite == [id |-> NoId, slug |-> None]
NoCategory == [id |-> NoId, siteId |-> NoId, name |-> None]

ServerId(kind, n) == [kind |-> kind, n |-> n, name |-> ""]
DryId(kind, name) == [kind |-> kind, n |-> 0, name |-> name]

\* str(id).lower()
LowerId(id) == [id EXCEPT !.name = Lower(@)]

SeederInit ==
  /\ csv \in CsvFiles
  /\ dry_run \in BOOLEAN
  /\ run = 1
  /\ pc = "load"
  /\ rows = << >>
  /\ i = 0
  /\ j = 0
  /\ site = NoSite
  /\ category = NoCategory
  /\ filter_assignments = << >>
  /\ product_id = NoId
  /\ site_cache = Empty
  /\ category_cache = Empty
  /\ filter_cache = Empty
  /\ error = NoError
  /\ log = << >>
  /\ resolved = << << >> >>
  /\ sv_sites = {}
  /\ sv_categories = {}
  /\ sv_filters = {}
  /\ sv_next = 1
  /\ ext = 0

input_vars == << csv, dry_run, run >>
server_vars == << sv_sites, sv_categories, sv_filters, sv_next >>
cache_vars == << site_cache, category_cache, filter_cache >>
local_vars == << site, category, filter_assignments, product_id >>

\* the gateway's answer to one request: a body, or the failure of the request
Ok(body) == [ok |-> TRUE, body |-> body]
Failed(err) == [ok |-> FALSE, err |-> err]

\* one HTTP request of the current row, as sent, with what came back
Sent(step, method, path, payload, answer) ==
  [ run |-> run, row |-> i, step |-> step, method |-> method, path |-> path,
    payload |-> payload, answer |-> answer ]

\* SimpleHttpClient.request: the request goes out and its answer comes back
Request(step, method, path, payload, answer) ==
  log' = Append(log, Sent(step, method, path, payload, answer))

\* (an error that is logged and the request tried again)
RaiseAndRetry(err) ==
  /\ pc' = pc
  /\ error' = err

\* an exception nobody handles: __main__ logs it and exits 1
Raise(err) ==
  /\ pc' = "failed"
  /\ error' = err

\* process_rows: the calls of the loop body, in order
ProcessRowsSwapped ==
  << "ensure_site", "ensure_category", "ensure_filters",
     "create_price", "create_product", "create_inventory" >>

ProcessRows ==
  << "ensure_site", "ensure_category", "ensure_filters",
     "create_product", "create_price", "create_inventory" >>

\* the call that follows `step` in the loop body
After(step) ==
  LET k == CHOOSE n \in 1..Len(ProcessRows) : ProcessRows[n] = step
  IN  ProcessRows[k + 1]

\* process_rows: the next row, or the end of the loop
NextRow ==
  IF i < Len(rows)
  THEN /\ i' = i + 1
       /\ pc' = ProcessRows[1]
  ELSE /\ i' = i
       /\ pc' = "done"

(***************************************************************************)
(* main: load_rows, then Seeder(...).process_rows(rows)                    *)
(***************************************************************************)
LoadRows ==
  /\ pc = "load"
  /\ LET records == Records(csv)
         bad == FirstRejected(records)
     IN  IF bad # 0
         THEN /\ Raise(ValueError(bad + FirstRowIndex - 1, NormalizeError(records[bad])))
              /\ UNCHANGED << rows, i >>
         ELSE /\ rows' = [k \in 1..Len(records) |-> Normalized(records[k])]
              /\ error' = error
              /\ IF Len(records) > 0
                 THEN i' = 1 /\ pc' = ProcessRows[1]
                 ELSE i' = 0 /\ pc' = "done"
  /\ UNCHANGED << csv, dry_run, run, j, site, category, filter_assignments, product_id,
                  site_cache, category_cache, filter_cache, log, resolved,
                  sv_sites, sv_categories, sv_filters, sv_next, ext >>
  /\ UNCHANGED lock_vars

(***************************************************************************)
(* Sites                                                                   *)
(***************************************************************************)
Slugs == { "s1", "s2" }

\* cache_key = row["site_key"] or row["site_slug"]
SiteCacheKey(row) == IF row.site_key # "" THEN row.site_key ELSE row.site_slug

SitesBySlug(slug) == { s \in sv_sites : s.slug = slug }

\* GET /api/sites/slug/{slug}: the site, or "not found", or a failure
SiteAnswers(slug) ==
  { Ok(s) : s \in SitesBySlug(slug) }
  \cup { Failed(e) : e \in (IF SitesBySlug(slug) = {} THEN SiteNotFoundAnswers ELSE {})
                           \cup GenericFailures }

\* POST /api/sites: the new site, or the refusal of its slug, or a failure
CreateSiteAnswers(slug) ==
  (IF SitesBySlug(slug) = {}
   THEN { Ok([id |-> ServerId("site", sv_next), slug |-> slug]) }
   ELSE {})
  \cup { Failed(e) : e \in { IF SitesBySlug(slug) = {} THEN SlugInvalid ELSE SlugTaken }
                           \cup GenericFailures }

\* _fetch_site_by_slug's except clause: the errors it turns into None
FetchSiteHandles(err) ==
  /\ err.type = "HttpError"
  /\ \/ err.status = 404
     \/ err.status = 400 /\ InLower("site not found", err.msg)

\* (an except clause that forgets the status)
CreateSiteHandlesAnyStatus(err) ==
  /\ err.type = "HttpError"
  /\ InLower("slug", err.msg)

\* _ensure_site's except clause: the errors it answers by fetching the slug again
CreateSiteHandles(err) ==
  /\ err.type = "HttpError"
  /\ err.status = 400
  /\ InLower("slug", err.msg)

\* (a seeder that forgets to fill site_cache)
SiteEnsuredNotCached(cache_key, s) ==
  /\ site' = s
  /\ site_cache' = site_cache
  /\ pc' = "ensure_category"

\* self.site_cache[cache_key] = site; return site
SiteEnsured(cache_key, s) ==
  /\ site' = s
  /\ site_cache' = (cache_key :> s) @@ site_cache
  /\ pc' = After("ensure_site")

\* _ensure_site up to its first request's answer
EnsureSite ==
  /\ pc = "ensure_site"
  /\ LET row == rows[i]
         cache_key == SiteCacheKey(row)
     IN  IF cache_key \in DOMAIN site_cache
         THEN /\ site' = site_cache[cache_key]
              /\ pc' = After("ensure_site")
              /\ UNCHANGED << site_cache, log, error >>
         ELSE IF dry_run
         THEN /\ SiteEnsured(cache_key, [id |-> DryId("dry", cache_key), slug |-> None])
              /\ UNCHANGED << log, error >>
         ELSE \E answer \in SiteAnswers(row.site_slug) :
                /\ Request("site", "GET", "/api/sites/slug", [slug |-> row.site_slug], answer)
                /\ IF answer.ok
                   THEN SiteEnsured(cache_key, answer.body) /\ error' = error
                   ELSE IF FetchSiteHandles(answer.err)
                   THEN /\ pc' = "site_create"
                        /\ UNCHANGED << site, site_cache, error >>
                   ELSE Raise(answer.err) /\ UNCHANGED << site, site_cache >>
  /\ UNCHANGED << input_vars, rows, i, j, category, filter_assignments, product_id,
                  category_cache, filter_cache, resolved, server_vars, ext >>
  /\ UNCHANGED lock_vars

\* _ensure_site: self.http.post("/api/sites") and its except clause
SiteCreate ==
  /\ pc = "site_create"
  /\ LET row == rows[i]
         cache_key == SiteCacheKey(row)
     IN  \E answer \in CreateSiteAnswers(row.site_slug) :
           /\ Request("site", "POST", "/api/sites", [slug |-> row.site_slug], answer)
           /\ IF answer.ok
              THEN /\ SiteEnsured(cache_key, answer.body)
                   /\ sv_sites' = sv_sites \cup { answer.body }
                   /\ sv_next' = sv_next + 1
                   /\ error' = error
              ELSE IF CreateSiteHandles(answer.err)
              THEN /\ pc' = "site_refetch"
                   /\ UNCHANGED << site, site_cache, error, sv_sites, sv_next >>
              ELSE Raise(answer.err) /\ UNCHANGED << site, site_cache, sv_sites, sv_next >>
  /\ UNCHANGED << input_vars, rows, i, j, category, filter_assignments, product_id,
                  category_cache, filter_cache, resolved, sv_categories, sv_filters, ext >>
  /\ UNCHANGED lock_vars

\* _ensure_site: the slug was refused, _fetch_site_by_slug again
SiteRefetch ==
  /\ pc = "site_refetch"
  /\ LET row == rows[i]
         cache_key == SiteCacheKey(row)
     IN  \E answer \in SiteAnswers(row.site_slug) :
           /\ Request("site", "GET", "/api/sites/slug", [slug |-> row.site_slug], answer)
           /\ IF answer.ok
              THEN SiteEnsured(cache_key, answer.body) /\ error' = error
              ELSE IF FetchSiteHandles(answer.err)
              THEN /\ Raise(RuntimeError("Unable to ensure site"))
                   /\ UNCHANGED << site, site_cache >>
              ELSE Raise(answer.err) /\ UNCHANGED << site, site_cache >>
  /\ UNCHANGED << input_vars, rows, i, j, category, filter_assignments, product_id,
                  category_cache, filter_cache, resolved, server_vars, ext >>
  /\ UNCHANGED lock_vars

\* another client of the gateway creates a site.  Only the site requests of a
\* row with the same slug can tell when it did, so it is placed right before
\* one of them: before the lookup of _ensure_site or before its POST.
ExternalCreateSite ==
  /\ ext < MaxExternal
  /\ pc \in { "ensure_site", "site_create" }
  /\ LET slug == rows[i].site_slug
     IN  /\ SitesBySlug(slug) = {}
         /\ sv_sites' = sv_sites \cup { [id |-> DryId("site", slug), slug |-> slug] }
  /\ ext' = ext + 1
  /\ UNCHANGED << input_vars, pc, rows, i, j, local_vars, cache_vars, error, log, resolved,
                  sv_categories, sv_filters, sv_next >>
  /\ UNCHANGED lock_vars

(***************************************************************************)
(* Categories                                                              *)
(***************************************************************************)
\* (a cache key that keeps the case of the name)
CategoryCacheKeyCaseSensitive(site_id, category_name) == << site_id, category_name >>

\* cache_key = (str(site_id), category_name.lower())
CategoryCacheKey(site_id, category_name) == << site_id, Lower(category_name) >>

CategoriesOf(site_id) == { c \in sv_categories : c.siteId = site_id }

\* for category in existing: self.category_cache[(site_id, name.lower())] = category
\* (one of the fetched categories per key: the list's last one with that key)
MergeCategories(cache, site_id, existing) ==
  LET keys == { CategoryCacheKey(site_id, c.name) : c \in existing }
  IN  [ k \in keys |-> CHOOSE c \in existing : CategoryCacheKey(site_id, c.name) = k ]
      @@ cache

\* GET /api/catalog/products/categories?siteId=
CategoriesAnswers(site_id) ==
  { Ok(CategoriesOf(site_id)) } \cup { Failed(e) : e \in GenericFailures }

\* POST /api/catalog/products/categories
CreateCategoryAnswers(site_id, category_name) ==
  { Ok([id |-> ServerId("category", sv_next), siteId |-> site_id, name |-> category_name]) }
  \cup { Failed(e) : e \in GenericFailures }

\* GET /api/catalog/filters?siteId=
FiltersOf(site_id) == { f \in sv_filters : f.siteId = site_id }

FiltersAnswers(site_id) ==
  { Ok(FiltersOf(site_id)) } \cup { Failed(e) : e \in GenericFailures }

\* _filter_cache_key: (str(category_id).lower(), key)
FilterCacheKey(category_id, key) == << LowerId(category_id), key >>

CreatedFilter(id, key, type) == [id |-> id, key |-> key, type |-> type]

\* _refresh_filters' loop over the entries of the response
MergeFilters(cache, entries) ==
  LET keys == { FilterCacheKey(e.categoryId, e.key) : e \in entries }
  IN  [ k \in keys |->
          LET e == CHOOSE e \in entries : FilterCacheKey(e.categoryId, e.key) = k
          IN  CreatedFilter(e.id, e.key, e.type) ]
      @@ cache

\* _ensure_category up to its first request's answer
EnsureCategory ==
  /\ pc = "ensure_category"
  /\ LET row == rows[i]
         cache_key == CategoryCacheKey(site.id, row.category_name)
     IN  IF cache_key \in DOMAIN category_cache
         THEN /\ category' = category_cache[cache_key]
              /\ pc' = After("ensure_category")
              /\ UNCHANGED << category_cache, log, error >>
         ELSE IF dry_run
         THEN /\ category' = [id |-> DryId("dry-cat", row.category_name), siteId |-> NoId,
                               name |-> row.category_name]
              /\ category_cache' = (cache_key :> category') @@ category_cache
              /\ pc' = After("ensure_category")
              /\ UNCHANGED << log, error >>
         ELSE \E answer \in CategoriesAnswers(site.id) :
                /\ Request("category", "GET", "/api/catalog/products/categories",
                           [siteId |-> site.id], answer)
                /\ IF answer.ok
                   THEN /\ category_cache' = MergeCategories(category_cache, site.id, answer.body)
                        /\ error' = error
                        /\ IF cache_key \in DOMAIN category_cache'
                           THEN /\ category' = category_cache'[cache_key]
                                /\ pc' = After("ensure_category")
                           ELSE /\ category' = category
                                /\ pc' = "category_create"
                   ELSE Raise(answer.err) /\ UNCHANGED << category, category_cache >>
  /\ UNCHANGED << input_vars, rows, i, j, site, filter_assignments, product_id,
                  site_cache, filter_cache, resolved, server_vars, ext >>
  /\ UNCHANGED lock_vars

\* _ensure_category: self.http.post(".../categories")
CategoryCreate ==
  /\ pc = "category_create"
  /\ LET row == rows[i]
         cache_key == CategoryCacheKey(site.id, row.category_name)
     IN  \E answer \in CreateCategoryAnswers(site.id, row.category_name) :
           /\ Request("category", "POST", "/api/catalog/products/categories",
                      [siteId |-> site.id, name |-> row.category_name], answer)
           /\ IF answer.ok
              THEN /\ category' = answer.body
                   /\ category_cache' = (cache_key :> answer.body) @@ category_cache
                   /\ sv_categories' = sv_categories \cup { answer.body }
                   /\ sv_next' = sv_next + 1
                   /\ error' = error
                   /\ pc' = IF row.filter_definitions # << >> /\ ~dry_run
                            THEN "category_refresh" ELSE After("ensure_category")
              ELSE Raise(answer.err)
                   /\ UNCHANGED << category, category_cache, sv_categories, sv_next >>
  /\ UNCHANGED << input_vars, rows, i, j, site, filter_assignments, product_id,
                  site_cache, filter_cache, resolved, sv_sites, sv_filters, ext >>
  /\ UNCHANGED lock_vars

\* _ensure_category: self._refresh_filters(site_id) after the creation
CategoryRefreshFilters ==
  /\ pc = "category_refresh"
  /\ \E answer \in FiltersAnswers(site.id) :
       /\ Request("category", "GET", "/api/catalog/filters", [siteId |-> site.id], answer)
       /\ IF answer.ok
          THEN /\ filter_cache' = MergeFilters(filter_cache, answer.body)
               /\ pc' = After("ensure_category")
               /\ error' = error
          ELSE Raise(answer.err) /\ UNCHANGED filter_cache
  /\ UNCHANGED << input_vars, rows, i, j, local_vars, site_cache, category_cache,
                  resolved, server_vars, ext >>
  /\ UNCHANGED lock_vars

(***************************************************************************)
(* Filters                                                                 *)
(***************************************************************************)
Raised(err) == [raised |-> TRUE, err |-> err, value |-> << >>]
Returned(value) == [raised |-> FALSE, err |-> NoError, value |-> value]

\* float(value) returns
IsFloat(value) == value \in { "42" }

\* (a loop that leaves out the keys without a filter)
RECURSIVE MapAssignmentsSkipping(_, _, _)
MapAssignmentsSkipping(cache, category_id, items) ==
  IF items = << >> THEN Returned(<< >>)
  ELSE LET item == Head(items)
           cache_key == FilterCacheKey(category_id, item.key)
           rest == MapAssignmentsSkipping(cache, category_id, Tail(items))
       IN  IF cache_key \notin DOMAIN cache THEN rest
           ELSE IF rest.raised THEN rest
           ELSE Returned(<< [ filterId |-> cache[cache_key].id, field |-> "textValue",
                              value |-> item.value ] >> \o rest.value)

\* _ensure_filters_and_map_assignments: the loop over row["product_filters"].items()
RECURSIVE MapAssignments(_, _, _)
MapAssignments(cache, category_id, items) ==
  IF items = << >> THEN Returned(<< >>)
  ELSE LET item == Head(items)
           cache_key == FilterCacheKey(category_id, item.key)
       IN  IF cache_key \notin DOMAIN cache
           THEN Raised(RuntimeError("No filter found for category"))
           ELSE LET cached_filter == cache[cache_key]
                    assignment ==
                      [ filterId |-> cached_filter.id,
                        field |-> IF cached_filter.type = "QUANTITATIVE"
                                  THEN "numericValue" ELSE "textValue",
                        value |-> item.value ]
                IN  IF cached_filter.type = "QUANTITATIVE" /\ ~IsFloat(item.value)
                    THEN Raised(ValueError(0, "could not convert string to float"))
                    ELSE LET rest == MapAssignments(cache, category_id, Tail(items))
                         IN  IF rest.raised THEN rest
                             ELSE Returned(<< assignment >> \o rest.value)

\* _ensure_filter_definitions with dry_run set: a placeholder per unknown key
RECURSIVE DryDefinitions(_, _, _)
DryDefinitions(cache, category_id, definitions) ==
  IF definitions = << >> THEN cache
  ELSE LET definition == Head(definitions)
           cache_key == FilterCacheKey(category_id, definition.key)
       IN  IF cache_key \in DOMAIN cache
           THEN DryDefinitions(cache, category_id, Tail(definitions))
           ELSE DryDefinitions(
                  (cache_key :> CreatedFilter(DryId("dry-filter", definition.key),
                                              definition.key, definition.type)) @@ cache,
                  category_id, Tail(definitions))

\* (a loop that posts every definition, known or not)
FirstUncachedIgnoringCache(cache, category_id, definitions, from) ==
  IF from <= Len(definitions) THEN from ELSE 0

\* _ensure_filter_definitions: the first definition from position `from` on whose
\* cache key is not in filter_cache (the others are skipped by `continue`), or 0
FirstUncached(cache, category_id, definitions, from) ==
  LET todo == { k \in from..Len(definitions) :
                  FilterCacheKey(category_id, definitions[k].key) \notin DOMAIN cache }
  IN  IF todo = {} THEN 0 ELSE CHOOSE k \in todo : \A m \in todo : k <= m

\* the payload of POST /api/catalog/filters
FilterPayload(site_id, category_id, definition) ==
  [ siteId |-> IF definition.siteId # NoId THEN definition.siteId ELSE site_id,
    categoryId |-> category_id,
    key |-> definition.key,
    type |-> definition.type ]

\* POST /api/catalog/filters
CreateFilterAnswers(payload) ==
  { Ok([id |-> ServerId("filter", sv_next), siteId |-> payload.siteId,
        categoryId |-> payload.categoryId, key |-> payload.key, type |-> payload.type]) }
  \cup { Failed(e) : e \in GenericFailures }

\* the end of _ensure_filters_and_map_assignments: the assignments, or the exception
Assignments(cache) ==
  LET mapped == MapAssignments(cache, category.id, rows[i].product_filters)
  IN  IF mapped.raised
      THEN /\ Raise(mapped.err)
           /\ UNCHANGED << filter_assignments, resolved >>
      ELSE /\ filter_assignments' = mapped.value
           /\ pc' = After("ensure_filters")
           /\ error' = error
           /\ resolved' = [resolved EXCEPT ![run] =
                 Append(@, [ site |-> site.id, category |-> category.id,
                             filters |-> [k \in 1..Len(mapped.value) |->
                                            mapped.value[k].filterId] ])]

\* _ensure_filters_and_map_assignments up to its first request's answer
EnsureFilters ==
  /\ pc = "ensure_filters"
  /\ IF dry_run
     THEN /\ filter_cache' = DryDefinitions(filter_cache, category.id,
                                            rows[i].filter_definitions)
          /\ Assignments(filter_cache')
          /\ UNCHANGED << log, j >>
     ELSE \E answer \in FiltersAnswers(site.id) :
            /\ Request("filters", "GET", "/api/catalog/filters", [siteId |-> site.id], answer)
            /\ IF answer.ok
               THEN /\ filter_cache' = MergeFilters(filter_cache, answer.body)
                    /\ pc' = "filter_definitions"
                    /\ j' = 1
                    /\ error' = error
               ELSE Raise(answer.err) /\ UNCHANGED << filter_cache, j >>
            /\ UNCHANGED << filter_assignments, resolved >>
  /\ UNCHANGED << input_vars, rows, i, site, category, product_id, site_cache,
                  category_cache, server_vars, ext >>
  /\ UNCHANGED lock_vars

\* _ensure_filter_definitions: the next POST of a definition not in the cache; when
\* none is left, the rest of _ensure_filters_and_map_assignments
FilterDefinitions ==
  /\ pc = "filter_definitions"
  /\ LET definitions == rows[i].filter_definitions
         k == FirstUncached(filter_cache, category.id, definitions, j)
     IN  IF k = 0
         THEN /\ Assignments(filter_cache)
              /\ UNCHANGED << filter_cache, j, log, sv_filters, sv_next >>
         ELSE LET payload == FilterPayload(site.id, category.id, definitions[k])
              IN  \E answer \in CreateFilterAnswers(payload) :
                    /\ Request("filters", "POST", "/api/catalog/filters", payload, answer)
                    /\ IF answer.ok
                       THEN /\ filter_cache' =
                                 (FilterCacheKey(category.id, definitions[k].key) :>
                                    CreatedFilter(answer.body.id, answer.body.key,
                                                  answer.body.type)) @@ filter_cache
                            /\ sv_filters' = sv_filters \cup { answer.body }
                            /\ sv_next' = sv_next + 1
                            /\ j' = k + 1
                            /\ UNCHANGED << pc, error >>
                       ELSE Raise(answer.err)
                            /\ UNCHANGED << filter_cache, sv_filters, sv_next, j >>
                    /\ UNCHANGED << filter_assignments, resolved >>
  /\ UNCHANGED << input_vars, rows, i, site, category, product_id, site_cache,
                  category_cache, sv_sites, sv_categories, ext >>
  /\ UNCHANGED lock_vars

(***************************************************************************)
(* Products, prices, inventory                                             *)
(***************************************************************************)
\* POST /api/catalog/products
CreateProductAnswers ==
  { Ok([id |-> ServerId("product", sv_next)]) } \cup { Failed(e) : e \in GenericFailures }

\* POST /api/prices, POST /api/inventory
CreateAnswers(kind) ==
  { Ok([id |-> ServerId(kind, sv_next)]) } \cup { Failed(e) : e \in GenericFailures }

\* (a _create_product that creates a SKU once per invocation)
CreateProductOncePerSku ==
  /\ pc = "create_product"
  /\ LET row == rows[i]
         payload == [ siteId |-> site.id, categoryIds |-> << category.id >>,
                      sku |-> row.product_sku, filters |-> filter_assignments ]
         created == { a \in 1..Len(log) :
                        /\ log[a].run = run
                        /\ log[a].method = "POST"
                        /\ log[a].path = "/api/catalog/products"
                        /\ log[a].answer.ok
                        /\ log[a].payload.sku = row.product_sku }
     IN  IF dry_run
         THEN /\ product_id' = DryId("dry-product", row.product_sku)
              /\ pc' = After("create_product")
              /\ UNCHANGED << log, error, sv_next >>
         ELSE IF created # {}
         THEN /\ product_id' = log[CHOOSE a \in created : TRUE].answer.body.id
              /\ pc' = After("create_product")
              /\ UNCHANGED << log, error, sv_next >>
         ELSE \E answer \in CreateProductAnswers :
                /\ Request("product", "POST", "/api/catalog/products", payload, answer)
                /\ IF answer.ok
                   THEN /\ product_id' = answer.body.id
                        /\ pc' = After("create_product")
                        /\ sv_next' = sv_next + 1
                        /\ error' = error
                   ELSE Raise(answer.err) /\ UNCHANGED << product_id, sv_next >>
  /\ UNCHANGED << input_vars, rows, i, j, site, category, filter_assignments, cache_vars,
                  resolved, sv_sites, sv_categories, sv_filters, ext >>
  /\ UNCHANGED lock_vars

\* _create_product
CreateProduct ==
  /\ pc = "create_product"
  /\ LET row == rows[i]
         payload == [ siteId |-> site.id, categoryIds |-> << category.id >>,
                      sku |-> row.product_sku, filters |-> filter_assignments ]
     IN  IF dry_run
         THEN /\ product_id' = DryId("dry-product", row.product_sku)
              /\ pc' = After("create_product")
              /\ UNCHANGED << log, error, sv_next >>
         ELSE \E answer \in CreateProductAnswers :
                /\ Request("product", "POST", "/api/catalog/products", payload, answer)
                /\ IF answer.ok
                   THEN /\ product_id' = answer.body.id
                        /\ pc' = After("create_product")
                        /\ sv_next' = sv_next + 1
                        /\ error' = error
                   ELSE Raise(answer.err) /\ UNCHANGED << product_id, sv_next >>
  /\ UNCHANGED << input_vars, rows, i, j, site, category, filter_assignments, cache_vars,
                  resolved, sv_sites, sv_categories, sv_filters, ext >>
  /\ UNCHANGED lock_vars

CreatePrice ==
  /\ pc = "create_price"
  /\ IF dry_run
     THEN /\ pc' = After("create_price")
          /\ UNCHANGED << log, error, sv_next >>
     ELSE \E answer \in CreateAnswers("price") :
            /\ Request("price", "POST", "/api/prices",
                       [productId |-> product_id, amount |-> rows[i].price_amount], answer)
            /\ IF answer.ok
               THEN /\ pc' = After("create_price")
                    /\ sv_next' = sv_next + 1
                    /\ error' = error
               ELSE Raise(answer.err) /\ UNCHANGED sv_next
  /\ UNCHANGED << input_vars, rows, i, j, local_vars, cache_vars, resolved,
                  sv_sites, sv_categories, sv_filters, ext >>
  /\ UNCHANGED lock_vars

\* (a _create_inventory without its dry_run return)
CreateInventoryNoDryRun ==
  /\ pc = "create_inventory"
  /\ \E answer \in CreateAnswers("inventory") :
       /\ Request("inventory", "POST", "/api/inventory",
                  [productId |-> product_id,
                   initialQuantity |-> rows[i].inventory_initial_quantity], answer)
       /\ IF answer.ok
          THEN /\ NextRow
               /\ sv_next' = sv_next + 1
               /\ error' = error
          ELSE Raise(answer.err) /\ UNCHANGED << i, sv_next >>
  /\ UNCHANGED << input_vars, rows, j, local_vars, cache_vars, resolved,
                  sv_sites, sv_categories, sv_filters, ext >>
  /\ UNCHANGED lock_vars

CreateInventory ==
  /\ pc = "create_inventory"
  /\ IF dry_run
     THEN /\ NextRow
          /\ UNCHANGED << log, error, sv_next >>
     ELSE \E answer \in CreateAnswers("inventory") :
            /\ Request("inventory", "POST", "/api/inventory",
                       [productId |-> product_id,
                        initialQuantity |-> rows[i].inventory_initial_quantity], answer)
            /\ IF answer.ok
               THEN /\ NextRow
                    /\ sv_next' = sv_next + 1
                    /\ error' = error
               ELSE Raise(answer.err) /\ UNCHANGED << i, sv_next >>
  /\ UNCHANGED << input_vars, rows, j, local_vars, cache_vars, resolved,
                  sv_sites, sv_categories, sv_filters, ext >>
  /\ UNCHANGED lock_vars

(***************************************************************************)
(* The operator runs the script again, on the same file with the same      *)
(* flags: a fresh process, so fresh caches, against the same gateway.      *)
(***************************************************************************)
RunAgain ==
  /\ pc = "done"
  /\ run < MaxRuns
  /\ run' = run + 1
  /\ pc' = "load"
  /\ rows' = << >>
  /\ i' = 0
  /\ j' = 0
  /\ site' = NoSite
  /\ category' = NoCategory
  /\ filter_assignments' = << >>
  /\ product_id' = NoId
  /\ site_cache' = Empty
  /\ category_cache' = Empty
  /\ filter_cache' = Empty
  /\ resolved' = Append(resolved, << >>)
  /\ UNCHANGED << csv, dry_run, error, log, server_vars, ext >>
  /\ UNCHANGED lock_vars

SeederNext ==
  \/ LoadRows
  \/ EnsureSite
  \/ SiteCreate
  \/ SiteRefetch
  \/ EnsureCategory
  \/ CategoryCreate
  \/ CategoryRefreshFilters
  \/ EnsureFilters
  \/ FilterDefinitions
  \/ CreateProduct
  \/ CreatePrice
  \/ CreateInventory
  \/ RunAgain
  \/ ExternalCreateSite

(***************************************************************************)
(* The lock generator: scripts/lock/generate_lock.py and lib.py.           *)
(*                                                                         *)
(* A text is a sequence of tokens here, so that prefixes, the first seven  *)
(* characters of a SHA and concatenations are computed.                    *)
(***************************************************************************)
MaxSubmodules == 2

NoText == << "<None>" >>

\* bool(text) of an Optional[str]
Truthy(text) == text # NoText /\ text # << >>

\* sha[:7]
ShortShaLen == 7

Short(sha) == SubSeq(sha, 1, IF Len(sha) < ShortShaLen THEN Len(sha) ELSE ShortShaLen)

\* str.lstrip("+-")
RECURSIVE LStripPlusMinus(_)
LStripPlusMinus(text) ==
  IF text # << >> /\ Head(text) \in { "+", "-" }
  THEN LStripPlusMinus(Tail(text))
  ELSE text

\* str.rstrip("/")
RECURSIVE RStripSlash(_)
RStripSlash(text) ==
  IF text # << >> /\ text[Len(text)] = "/"
  THEN RStripSlash(SubSeq(text, 1, Len(text) - 1))
  ELSE text

\* Path(path).name
PathName(path) == path[Len(path)]

\* the commits of the model's submodules, and the null object id git prints
\* for a submodule with merge conflicts
ShaA == << "a", "1", "b", "2", "c", "3", "d", "4", "e" >>
ShaB == << "f", "9", "e", "8", "d", "7", "c", "6", "b" >>
NullSha == << "0", "0", "0", "0", "0", "0", "0", "0", "0" >>

SubmodulePaths == { << "services", "api" >>, << "services", "web" >>, << "infra", "api" >> }

\* the lines `git submodule status --recursive services infra` prints: one per
\* submodule, the SHA preceded by " ", "+" (other commit checked out), "-" (not
\* initialized) or "U" (merge conflicts)
StatusLine(flag, sha, path) == [flag |-> flag, sha |-> sha, path |-> path]

StatusLines ==
  { StatusLine(" ", ShaA, p) : p \in SubmodulePaths }
  \cup { StatusLine("+", ShaB, p) : p \in SubmodulePaths }
  \cup { StatusLine("U", NullSha, p) : p \in SubmodulePaths }
  \cup { StatusLine("-", ShaA, << "services", "api" >>) }

StatusOutputs ==
  { out \in UNION { [1..n -> StatusLines] : n \in 0..MaxSubmodules } :
      \A a, b \in 1..Len(out) : a # b => out[a].path # out[b].path }

\* line.strip().split()[0]
FirstPart(line) == (IF line.flag = " " THEN << >> ELSE << line.flag >>) \o line.sha

\* a dict as the sequence of its items, in insertion order
DictKeys(dict) == { dict[k].key : k \in 1..Len(dict) }

DictGet(dict, key) == (CHOOSE k \in 1..Len(dict) : dict[k].key = key)

DictSet(dict, key, value) ==
  IF key \in DictKeys(dict)
  THEN [dict EXCEPT ![DictGet(dict, key)] = [key |-> key, value |-> value]]
  ELSE Append(dict, [key |-> key, value |-> value])

\* list_submodules: submodule path -> commit SHA
RECURSIVE ListSubmodules(_)
ListSubmodules(out) ==
  IF out = << >> THEN << >>
  ELSE LET line == out[Len(out)]
           sha == LStripPlusMinus(FirstPart(line))
       IN  DictSet(ListSubmodules(SubSeq(out, 1, Len(out) - 1)), line.path, sha)

\* the image-metadata files of the model: per service the details of the file
Details(repository, tag, digest, tag_prefix) ==
  [repository |-> repository, tag |-> tag, digest |-> digest, tag_prefix |-> tag_prefix]

ApiDetails ==
  { Details(<< "hub/api" >>, NoText, NoText, NoText),
    Details(<< "hub/api" >>, << "v1" >>, << "sha256:d" >>, NoText),
    Details(<< "hub/api" >>, << "v1" >>, NoText, << "rel-" >>),
    Details(<< "hub/api" >>, << >>, NoText, << >>),
    Details(NoText, << "v1" >>, NoText, NoText) }

WebDetails == { Details(<< "hub/web" >>, NoText, NoText, << "rel-" >>) }

NoFile == [x \in {} |-> Details(NoText, NoText, NoText, NoText)]

MetadataFiles ==
  { NoFile }
  \cup { ("api" :> d) : d \in ApiDetails }
  \cup { ("web" :> d) : d \in WebDetails }
  \cup { ("api" :> d) @@ ("web" :> w) : d \in ApiDetails, w \in WebDetails }

ImageMetadata(repository, tag, digest, tag_prefix) ==
  [repository |-> repository, tag |-> tag, digest |-> digest, tag_prefix |-> tag_prefix]

NoLocks == [x \in {} |-> NoText]

\* a dict of dicts as the sequence of its leaves, in insertion order: each leaf
\* is the path of keys that leads to it and its text
Leaf(path, value) == [path |-> path, value |-> value]

\* the keys of the lock payload in the order of Python's str comparison
KeyOrder ==
  << "api", "commit", "db", "digest", "generated_at", "generator", "git_sha", "image",
     "metadata", "notes", "repository", "services", "source_branch", "submodule_path",
     "tag", "web" >>

KeyRank(key) == CHOOSE k \in 1..Len(KeyOrder) : KeyOrder[k] = key

\* the order json.dump(sort_keys=True) writes two leaves in: by the keys of
\* their paths, level by level
RECURSIVE PathBefore(_, _)
PathBefore(p, q) ==
  IF p = << >> \/ q = << >> THEN p = << >> /\ q # << >>
  ELSE IF Head(p) = Head(q) THEN PathBefore(Tail(p), Tail(q))
  ELSE KeyRank(Head(p)) < KeyRank(Head(q))

\* the file at the output path: absent, or a text (the leaves in the order
\* they are written, and the newline that ends the file)
FileOf(leaves, newline) == [exists |-> TRUE, leaves |-> leaves, newline |-> newline]

NoOutput == [exists |-> FALSE, leaves |-> << >>, newline |-> FALSE]

OldOutput == FileOf(<< Leaf(<< "metadata", "generator" >>, << "an earlier lock" >>) >>, TRUE)

ServicesArgs == { NoText, << >>, << "api" >>, << "web", "db" >> }

LockInit ==
  /\ arg_services \in ServicesArgs
  /\ arg_image_metadata \in MetadataFiles
  /\ arg_default_tag_prefix \in { NoText, << >>, << "main-" >> }
  /\ arg_default_registry \in { << "ghcr.io/shopifake" >>, << "reg.local", "/" >> }
  /\ git_status \in StatusOutputs
  /\ lk_pc = "load_image_metadata"
  /\ image_metadata = NoFile
  /\ locks = NoLocks
  /\ lk_error = NoError
  /\ arg_force = FALSE
  /\ lock_payload = << >>
  /\ fs_output = NoOutput

\* the invocations that differ in --force and in what the output path holds
DumpInit ==
  /\ arg_services \in ServicesArgs
  /\ arg_image_metadata = NoFile
  /\ arg_default_tag_prefix = NoText
  /\ arg_default_registry = << "ghcr.io/shopifake" >>
  /\ git_status \in StatusOutputs
  /\ lk_pc = "load_image_metadata"
  /\ image_metadata = NoFile
  /\ locks = NoLocks
  /\ lk_error = NoError
  /\ arg_force \in BOOLEAN
  /\ lock_payload = << >>
  /\ fs_output \in { NoOutput, OldOutput }

\* the orders a file can list its services in
Orders(services) ==
  { order \in [1..Cardinality(services) -> services] :
      \A a, b \in DOMAIN order : a # b => order[a] # order[b] }

\* load_image_metadata: the loop over data.items(), in the order of the file
RECURSIVE LoadedMetadata(_, _)
LoadedMetadata(order, data) ==
  IF order = << >> THEN NoFile
  ELSE LET service == order[Len(order)]
           details == data[service]
       IN  (service :> ImageMetadata(details.repository, details.tag, details.digest,
                                     details.tag_prefix))
           @@ LoadedMetadata(SubSeq(order, 1, Len(order) - 1), data)

\* load_image_metadata
LoadImageMetadata ==
  /\ lk_pc = "load_image_metadata"
  /\ \E order \in Orders(DOMAIN arg_image_metadata) :
       IF \E service \in DOMAIN arg_image_metadata :
            ~Truthy(arg_image_metadata[service].repository)
       THEN /\ lk_pc' = "failed"
            /\ lk_error' = ValueError(0, "Missing repository for service")
            /\ UNCHANGED image_metadata
       ELSE /\ image_metadata' = LoadedMetadata(order, arg_image_metadata)
            /\ lk_pc' = "build_lock_payload"
            /\ UNCHANGED lk_error
  /\ UNCHANGED << arg_services, arg_image_metadata, arg_default_tag_prefix,
                  arg_default_registry, git_status, locks, arg_force,
                  lock_payload, fs_output >>
  /\ UNCHANGED seeder_vars

\* image_metadata.get(service_name, ImageMetadata(f"{default_registry}/{service_name}", ...))
ImageFor(metadata, service_name, default_registry, default_tag_prefix) ==
  IF service_name \in DOMAIN metadata
  THEN metadata[service_name]
  ELSE ImageMetadata(default_registry \o << "/", service_name >>, NoText, NoText,
                     default_tag_prefix)

\* build_service_locks: "Determine final tag value"
FinalTag(image, sha) ==
  IF Truthy(image.tag_prefix) THEN image.tag_prefix \o Short(sha)
  ELSE IF image.tag = NoText THEN Short(sha)
  ELSE image.tag

ServiceLock(path, sha, image) ==
  [ submodule_path |-> path, git_sha |-> sha,
    image |-> ImageMetadata(image.repository, FinalTag(image, sha), image.digest, NoText),
    notes |-> NoText ]

\* build_service_locks: the loop over service_commits.items()
RECURSIVE ServiceLocks(_, _, _, _, _)
ServiceLocks(service_commits, metadata, services_filter, default_registry, default_tag_prefix) ==
  IF service_commits = << >> THEN NoLocks
  ELSE LET n == Len(service_commits)
           before == ServiceLocks(SubSeq(service_commits, 1, n - 1), metadata,
                                  services_filter, default_registry, default_tag_prefix)
           path == service_commits[n].key
           sha == service_commits[n].value
           service_name == PathName(path)
       IN  IF Truthy(services_filter)
              /\ service_name \notin { services_filter[k] : k \in 1..Len(services_filter) }
           THEN before
           ELSE (service_name :>
                   ServiceLock(path, sha,
                               ImageFor(metadata, service_name, default_registry,
                                        default_tag_prefix)))
                @@ before

\* (no requested service is ever reported missing)
MissingServicesIgnored(services_filter, built) == {}

\* set(services_filter) - set(locks.keys())
MissingServices(services_filter, built) ==
  IF Truthy(services_filter)
  THEN { services_filter[k] : k \in 1..Len(services_filter) } \ DOMAIN built
  ELSE {}

\* main's call of build_lock_payload, up to the return of build_service_locks
BuildServiceLocks ==
  /\ lk_pc = "build_lock_payload"
  /\ LET default_registry == RStripSlash(arg_default_registry)
         default_tag_prefix == IF Truthy(arg_default_tag_prefix)
                               THEN arg_default_tag_prefix ELSE NoText
         built == ServiceLocks(ListSubmodules(git_status), image_metadata, arg_services,
                               default_registry, default_tag_prefix)
     IN  IF MissingServices(arg_services, built) # {}
         THEN /\ lk_pc' = "failed"
              /\ lk_error' = ValueError(0, "Requested services missing from submodules")
              /\ UNCHANGED locks
         ELSE /\ locks' = built
              /\ lk_pc' = "built"
              /\ UNCHANGED lk_error
  /\ UNCHANGED << arg_services, arg_image_metadata, arg_default_tag_prefix,
                  arg_default_registry, git_status, image_metadata, arg_force,
                  lock_payload, fs_output >>
  /\ UNCHANGED seeder_vars

\* what main reads besides the submodules: the clock, and git rev-parse
Timestamp == << "2025-01-01T00:00:00+00:00" >>
SourceBranch == << "main" >>
HeadCommit == ShaB

\* "/".join of the components of a path
RECURSIVE PathText(_)
PathText(path) ==
  IF Len(path) <= 1 THEN path
  ELSE PathText(SubSeq(path, 1, Len(path) - 1)) \o << "/", path[Len(path)] >>

\* build_lock_payload: metadata
MetadataLeaves ==
  << Leaf(<< "metadata", "generated_at" >>, Timestamp),
     Leaf(<< "metadata", "generator" >>, << "generate_lock.py@v1" >>),
     Leaf(<< "metadata", "source_branch" >>, SourceBranch),
     Leaf(<< "metadata", "commit" >>, HeadCommit) >>

\* ImageMetadata.to_mapping, under the keys of its service
ImageMapping(at, image) ==
  << Leaf(at \o << "repository" >>, image.repository) >>
  \o (IF Truthy(image.tag) THEN << Leaf(at \o << "tag" >>, image.tag) >> ELSE << >>)
  \o (IF Truthy(image.digest) THEN << Leaf(at \o << "digest" >>, image.digest) >> ELSE << >>)

\* ServiceLock.to_mapping, under the name of its service
LockMapping(name, lock) ==
  << Leaf(<< "services", name, "submodule_path" >>, PathText(lock.submodule_path)),
     Leaf(<< "services", name, "git_sha" >>, lock.git_sha) >>
  \o ImageMapping(<< "services", name, "image" >>, lock.image)
  \o (IF Truthy(lock.notes) THEN << Leaf(<< "services", name, "notes" >>, lock.notes) >>
      ELSE << >>)

\* sorted(service_locks.items()): the names in order
SortedNames(service_locks) ==
  SelectSeq(KeyOrder, LAMBDA key : key \in DOMAIN service_locks)

\* build_lock_payload: services_payload
RECURSIVE ServicesPayload(_, _)
ServicesPayload(names, service_locks) ==
  IF names = << >> THEN << >>
  ELSE LockMapping(Head(names), service_locks[Head(names)])
       \o ServicesPayload(Tail(names), service_locks)

\* build_lock_payload: the payload returned
LockPayload(service_locks) ==
  MetadataLeaves \o ServicesPayload(SortedNames(service_locks), service_locks)

\* build_lock_payload, after build_service_locks returned: git rev-parse (taken
\* to answer) and the assembly of the payload
BuildLockPayload ==
  /\ lk_pc = "built"
  /\ lock_payload' = LockPayload(locks)
  /\ lk_pc' = "dump_lock"
  /\ UNCHANGED << arg_services, arg_image_metadata, arg_default_tag_prefix,
                  arg_default_registry, git_status, image_metadata, locks, lk_error,
                  arg_force, fs_output >>
  /\ UNCHANGED seeder_vars

\* json.dump(payload, handle, indent=2, sort_keys=True): the leaves in sorted order
RECURSIVE InsertLeaf(_, _)
InsertLeaf(leaf, sorted) ==
  IF sorted = << >> THEN << leaf >>
  ELSE IF PathBefore(leaf.path, Head(sorted).path) THEN << leaf >> \o sorted
  ELSE << Head(sorted) >> \o InsertLeaf(leaf, Tail(sorted))

RECURSIVE JsonDump(_)
JsonDump(leaves) ==
  IF leaves = << >> THEN << >>
  ELSE InsertLeaf(leaves[Len(leaves)], JsonDump(SubSeq(leaves, 1, Len(leaves) - 1)))

FileExistsError == [type |-> "FileExistsError", status |-> 0,
                    msg |-> "Lock file already exists", row |-> 0]

\* (a dump that overwrites whatever is there)
DumpLockAlways ==
  /\ lk_pc = "dump_lock"
  /\ fs_output' = FileOf(JsonDump(lock_payload), TRUE)
  /\ lk_pc' = "done"
  /\ UNCHANGED << arg_services, arg_image_metadata, arg_default_tag_prefix,
                  arg_default_registry, git_status, image_metadata, locks, lk_error,
                  arg_force, lock_payload >>
  /\ UNCHANGED seeder_vars

\* dump_lock
DumpLock ==
  /\ lk_pc = "dump_lock"
  /\ IF fs_output.exists /\ ~arg_force
     THEN /\ lk_pc' = "failed"
          /\ lk_error' = FileExistsError
          /\ UNCHANGED fs_output
     ELSE /\ fs_output' = FileOf(JsonDump(lock_payload), TRUE)
          /\ lk_pc' = "done"
          /\ UNCHANGED lk_error
  /\ UNCHANGED << arg_services, arg_image_metadata, arg_default_tag_prefix,
                  arg_default_registry, git_status, image_metadata, locks, arg_force,
                  lock_payload >>
  /\ UNCHANGED seeder_vars

LockNext ==
  \/ LoadImageMetadata
  \/ BuildServiceLocks
  \/ BuildLockPayload
  \/ DumpLock

\* the lock generator at rest, while the seeder runs
LockIdle ==
  /\ arg_services = NoText
  /\ arg_image_metadata = NoFile
  /\ arg_default_tag_prefix = NoText
  /\ arg_default_registry = << "ghcr.io/shopifake" >>
  /\ git_status = << >>
  /\ lk_pc = "idle"
  /\ image_metadata = NoFile
  /\ locks = NoLocks
  /\ lk_error = NoError
  /\ arg_force = FALSE
  /\ lock_payload = << >>
  /\ fs_output = NoOutput

\* the seeder at rest, while the lock generator runs
SeederIdle ==
  /\ csv = << >>
  /\ dry_run = TRUE
  /\ run = 1
  /\ pc = "idle"
  /\ rows = << >>
  /\ i = 0
  /\ j = 0
  /\ site = NoSite
  /\ category = NoCategory
  /\ filter_assignments = << >>
  /\ product_id = NoId
  /\ site_cache = Empty
  /\ category_cache = Empty
  /\ filter_cache = Empty
  /\ error = NoError
  /\ log = << >>
  /\ resolved = << << >> >>
  /\ sv_sites = {}
  /\ sv_categories = {}
  /\ sv_filters = {}
  /\ sv_next = 1
  /\ ext = MaxExternal

vars == << seeder_vars, lock_vars >>

Init == SeederInit /\ LockIdle

Next == SeederNext

\* the seeder
Spec == Init /\ [][Next]_vars

\* the lock generator
LockStart == LockInit /\ SeederIdle

LockSpec == LockStart /\ [][LockNext]_vars

DumpStart == DumpInit /\ SeederIdle

\* the lock generator writing its file
DumpSpec == DumpStart /\ [][LockNext]_vars

(***************************************************************************)
(* Vocabulary of the properties.                                           *)
(***************************************************************************)
\* the step of process_rows an endpoint belongs to, read off the request alone
StepRank(e) ==
  CASE e.path \in { "/api/sites/slug", "/api/sites" }  -> 1
    [] e.path = "/api/catalog/products/categories"     -> 2
    [] e.path = "/api/catalog/filters"                 -> 3
    [] e.path = "/api/catalog/products"                -> 4
    [] e.path = "/api/prices"                          -> 5
    [] e.path = "/api/inventory"                       -> 6

Requests == 1..Len(log)

IsRequest(e, method, path) == e.method = method /\ e.path = path

\* the places in the log of the requests of one endpoint
Sending(method, path) == { a \in Requests : IsRequest(log[a], method, path) }

\* the rows of the file, as every invocation loads them
FileRows ==
  LET records == Records(csv)
  IN  [k \in 1..Len(records) |-> Normalized(records[k])]

\* a failure the seeder handles instead of propagating
HandledFailure(e) ==
  /\ ~e.answer.ok
  /\ e.answer.err.type = "HttpError"
  /\ \/ /\ IsRequest(e, "GET", "/api/sites/slug")
        /\ \/ e.answer.err.status = 404
           \/ e.answer.err.status = 400 /\ InLower("site not found", e.answer.err.msg)
     \/ /\ IsRequest(e, "POST", "/api/sites")
        /\ e.answer.err.status = 400
        /\ InLower("slug", e.answer.err.msg)

(***************************************************************************)
(* C1.  Per row the steps run in the order site, category, filters,        *)
(* product, price, inventory, and the rows one after another in CSV order: *)
(* the requests of an invocation are sent in non-decreasing (row, step)    *)
(* order (each request is at or after its predecessor in the log, and so   *)
(* after every earlier one); a request of row r+1 is sent only after the   *)
(* create-inventory request of row r has returned; the create-price and    *)
(* create-inventory requests of a row are sent only after that row's       *)
(* create-product request has returned.                                    *)
(***************************************************************************)
C1_StepsInOrder ==
  LET inventories == Sending("POST", "/api/inventory")
      products == Sending("POST", "/api/catalog/products")
  IN
  /\ \A a \in 1..(Len(log) - 1) :
       \/ log[a].run < log[a + 1].run
       \/ /\ log[a].run = log[a + 1].run
          /\ \/ log[a].row < log[a + 1].row
             \/ /\ log[a].row = log[a + 1].row
                /\ StepRank(log[a]) <= StepRank(log[a + 1])
  /\ \A b \in Requests :
       log[b].row > 1 =>
         \E a \in inventories :
           /\ a < b
           /\ log[a].run = log[b].run
           /\ log[a].row = log[b].row - 1
           /\ log[a].answer.ok
  /\ \A b \in Requests :
       StepRank(log[b]) \in { 5, 6 } =>
         \E a \in products :
           /\ a < b
           /\ log[a].run = log[b].run
           /\ log[a].row = log[b].row
           /\ log[a].answer.ok
           /\ log[b].payload.productId = log[a].answer.body.id
  /\ \A a \in Requests : log[a].run <= run /\ (log[a].run = run => log[a].row <= i)

C1_Witness ==
  /\ \E b \in Requests : log[b].run = 1 /\ log[b].row = 2 /\ StepRank(log[b]) = 6
  /\ \E b \in Requests : log[b].run = 1 /\ log[b].row = 1 /\ StepRank(log[b]) = 3
                            /\ log[b].method = "POST"

(***************************************************************************)
(* C2.  Within one invocation no site is created twice: at most one POST   *)
(* /api/sites is sent per site cache key and per slug, and a row whose     *)
(* cache key an earlier row of the invocation already ensured sends no     *)
(* site lookup and no site creation.                                       *)
(***************************************************************************)
C2_SiteCreatedOnce ==
  LET file_rows == FileRows
  IN
  /\ \A a, b \in Sending("POST", "/api/sites") :
       (a < b /\ log[a].run = log[b].run) =>
           /\ SiteCacheKey(file_rows[log[a].row]) # SiteCacheKey(file_rows[log[b].row])
           /\ log[a].payload.slug # log[b].payload.slug
  /\ \A b \in Requests :
       StepRank(log[b]) = 1 =>
         \A r \in 1..(log[b].row - 1) :
           SiteCacheKey(file_rows[r]) # SiteCacheKey(file_rows[log[b].row])
  /\ \A r \in 1..Len(rows) :
       (r < i \/ (r = i /\ pc \in { "ensure_category", "ensure_filters", "create_product" }))
         => SiteCacheKey(rows[r]) \in DOMAIN site_cache

C2_Witness ==
  /\ ~dry_run
  /\ run = 1
  /\ i = 2
  /\ pc = "ensure_category"
  /\ SiteCacheKey(rows[1]) = SiteCacheKey(rows[2])
  /\ rows[1].site_slug # rows[2].site_slug
  /\ \E a \in Requests : IsRequest(log[a], "POST", "/api/sites") /\ log[a].answer.ok

(***************************************************************************)
(* C3.  The ensure operations are idempotent across invocations: a second  *)
(* invocation on the same file, after a first one that succeeded and       *)
(* against a gateway that still holds what the first created, sends no     *)
(* POST /api/sites, no POST /api/catalog/products/categories and no POST   *)
(* /api/catalog/filters, and resolves every row to the ids of the first.   *)
(***************************************************************************)
IsEnsureCreation(e) ==
  \/ IsRequest(e, "POST", "/api/sites")
  \/ IsRequest(e, "POST", "/api/catalog/products/categories")
  \/ IsRequest(e, "POST", "/api/catalog/filters")

C3_IdempotentAcrossRuns ==
  /\ \A b \in Requests : log[b].run >= 2 => ~IsEnsureCreation(log[b])
  /\ \A r \in 2..Len(resolved) :
       \A k \in 1..Len(resolved[r]) : resolved[r][k] = resolved[1][k]

(***************************************************************************)
(* C4.  A POST /api/catalog/products/categories is sent only right after   *)
(* the GET of the site's categories returned no category whose name equals *)
(* the row's category name ignoring case; so no two such POSTs of one      *)
(* invocation carry the same (siteId, lower-cased name), and a category    *)
(* the gateway holds for the site under that name is never created again.  *)
(***************************************************************************)
SameNameIgnoringCase(a, b) == Lower(a) = Lower(b)

C4_CategoryCreatedAfterFetch ==
  /\ \A b \in Sending("POST", "/api/catalog/products/categories") :
         /\ b > 1
         /\ IsRequest(log[b - 1], "GET", "/api/catalog/products/categories")
         /\ log[b - 1].run = log[b].run
         /\ log[b - 1].row = log[b].row
         /\ log[b - 1].payload.siteId = log[b].payload.siteId
         /\ log[b - 1].answer.ok
         /\ \A c \in log[b - 1].answer.body :
              ~SameNameIgnoringCase(c.name, log[b].payload.name)
         /\ log[b].payload.name = FileRows[log[b].row].category_name
  /\ \A a, b \in Sending("POST", "/api/catalog/products/categories") :
       (a < b /\ log[a].run = log[b].run) =>
           \/ log[a].payload.siteId # log[b].payload.siteId
           \/ ~SameNameIgnoringCase(log[a].payload.name, log[b].payload.name)
  /\ \A c, d \in sv_categories :
       (c.siteId = d.siteId /\ SameNameIgnoringCase(c.name, d.name)) => c = d

\* the second row's category differs from the first's in case only and is reused;
\* and in a second invocation the category the first one created is fetched and reused
C4_Witness ==
  /\ ~dry_run
  /\ run = 2
  /\ i = 2
  /\ pc = "ensure_filters"
  /\ rows[1].category_name # rows[2].category_name
  /\ SameNameIgnoringCase(rows[1].category_name, rows[2].category_name)
  /\ \E a \in Requests :
       /\ log[a].run = 1
       /\ IsRequest(log[a], "POST", "/api/catalog/products/categories")
       /\ log[a].answer.ok
       /\ category = log[a].answer.body
  /\ \E a \in Requests :
       /\ log[a].run = 2
       /\ IsRequest(log[a], "GET", "/api/catalog/products/categories")
       /\ log[a].answer.ok
       /\ log[a].answer.body # {}

(***************************************************************************)
(* C5.  A POST /api/catalog/filters is sent for a definition of a row only *)
(* after the site's filters were fetched again for that row and while no   *)
(* filter is known (in filter_cache) for the definition's (category id,    *)
(* key); no two such POSTs of one invocation carry the same (categoryId,   *)
(* key).                                                                   *)
(***************************************************************************)
\* what filter_cache holds when request b is sent: the filters of every earlier
\* answer of the invocation
KnownBefore(b, category_id, key) ==
  \E a \in 1..(b - 1) :
    /\ log[a].path = "/api/catalog/filters"
    /\ log[a].run = log[b].run
    /\ log[a].answer.ok
    /\ \/ /\ log[a].method = "GET"
          /\ \E f \in log[a].answer.body :
               LowerId(f.categoryId) = LowerId(category_id) /\ f.key = key
       \/ /\ log[a].method = "POST"
          /\ LowerId(log[a].payload.categoryId) = LowerId(category_id)
          /\ log[a].payload.key = key

C5_FilterCreatedOnlyIfUnknown ==
  /\ \A b \in Sending("POST", "/api/catalog/filters") :
         /\ ~KnownBefore(b, log[b].payload.categoryId, log[b].payload.key)
         /\ LET definitions == Normalized(Records(csv)[log[b].row]).filter_definitions
            IN  \E d \in 1..Len(definitions) : definitions[d].key = log[b].payload.key
         /\ \E a \in Sending("GET", "/api/catalog/filters") :
              /\ a < b
              /\ log[a].run = log[b].run
              /\ log[a].row = log[b].row
              /\ log[a].answer.ok
              /\ \A c \in (a + 1)..(b - 1) : IsRequest(log[c], "POST", "/api/catalog/filters")
  /\ \A a, b \in Sending("POST", "/api/catalog/filters") :
       (a < b /\ log[a].run = log[b].run) =>
           \/ log[a].payload.categoryId # log[b].payload.categoryId
           \/ log[a].payload.key # log[b].payload.key

\* a row whose definition was created by an earlier row goes on without a POST
C5_Witness ==
  /\ ~dry_run
  /\ run = 1
  /\ i = 2
  /\ pc = "create_product"
  /\ rows[2].filter_definitions # << >>
  /\ \E a \in Requests :
       /\ log[a].row = 1
       /\ IsRequest(log[a], "POST", "/api/catalog/filters")
       /\ log[a].answer.ok
       /\ log[a].payload.categoryId = category.id
       /\ log[a].payload.key = rows[2].filter_definitions[1].key
  /\ ~\E b \in Requests :
       log[b].row = 2 /\ IsRequest(log[b], "POST", "/api/catalog/filters")

(***************************************************************************)
(* C6.  Create-on-conflict for sites.  When POST /api/sites is rejected    *)
(* with HTTP 400 and a body mentioning "slug", _ensure_site does not fail  *)
(* but fetches the site by slug; the site found is used and cached; when   *)
(* none is found the invocation fails with "Unable to ensure site" and     *)
(* site_cache gets no entry; any other error of the POST is propagated     *)
(* unchanged.                                                              *)
(***************************************************************************)
LastRequest == log[Len(log)]

SlugRejection(e) ==
  /\ IsRequest(e, "POST", "/api/sites")
  /\ ~e.answer.ok
  /\ e.answer.err.type = "HttpError"
  /\ e.answer.err.status = 400
  /\ InLower("slug", e.answer.err.msg)

SiteNotFound(e) ==
  /\ IsRequest(e, "GET", "/api/sites/slug")
  /\ ~e.answer.ok
  /\ e.answer.err \in SiteNotFoundAnswers

C6_CreateOnConflict ==
  /\ (Len(log) >= 1 /\ IsRequest(LastRequest, "POST", "/api/sites") /\ ~LastRequest.answer.ok) =>
       IF SlugRejection(LastRequest)
       THEN pc = "site_refetch" /\ error = NoError
       ELSE pc = "failed" /\ error = LastRequest.answer.err
  /\ (Len(log) >= 2 /\ SlugRejection(log[Len(log) - 1])) =>
       LET cache_key == SiteCacheKey(FileRows[LastRequest.row])
       IN  /\ IsRequest(LastRequest, "GET", "/api/sites/slug")
           /\ LastRequest.payload.slug = log[Len(log) - 1].payload.slug
           /\ LastRequest.row = log[Len(log) - 1].row
           /\ LastRequest.answer.ok =>
                /\ pc # "failed"
                /\ site = LastRequest.answer.body
                /\ cache_key \in DOMAIN site_cache
                /\ site_cache[cache_key] = LastRequest.answer.body
           /\ SiteNotFound(LastRequest) =>
                /\ pc = "failed"
                /\ error = RuntimeError("Unable to ensure site")
                /\ cache_key \notin DOMAIN site_cache
           /\ (~LastRequest.answer.ok /\ ~SiteNotFound(LastRequest)) =>
                /\ pc = "failed"
                /\ error = LastRequest.answer.err
                /\ cache_key \notin DOMAIN site_cache

\* the slug was taken between the lookup and the creation, and the site that took
\* it is now the row's site
C6_Witness ==
  /\ Len(log) >= 3
  /\ SiteNotFound(log[Len(log) - 2])
  /\ SlugRejection(log[Len(log) - 1])
  /\ IsRequest(LastRequest, "GET", "/api/sites/slug")
  /\ LastRequest.answer.ok
  /\ site = LastRequest.answer.body
  /\ site_cache[SiteCacheKey(rows[i])] = site
  /\ pc = "ensure_category"

(***************************************************************************)
(* C7.  Errors are propagated without retry: a request that fails with an  *)
(* error other than the handled ones (site lookup answered 404 or 400      *)
(* "site not found"; site creation answered 400 mentioning the slug) ends  *)
(* the invocation in failure with that error; it is the last request ever  *)
(* sent.                                                                   *)
(***************************************************************************)
C7_NoRetry ==
  /\ \A a \in Requests :
       (~log[a].answer.ok /\ ~HandledFailure(log[a])) =>
         /\ a = Len(log)
         /\ pc = "failed"
         /\ error = log[a].answer.err
         /\ log[a].run = run
  /\ pc = "failed" => error # NoError

C7_Witness ==
  /\ pc = "failed"
  /\ error = HttpError(500, "Slug index down: site not found")
  /\ Len(log) >= 2
  /\ IsRequest(LastRequest, "POST", "/api/catalog/products")
  /\ i = 1
  /\ Len(rows) = 2

(***************************************************************************)
(* C8.  With --dry-run no endpoint is called: no request is ever sent,     *)
(* while every row that got past its ensure steps left a placeholder site, *)
(* a placeholder category and a placeholder per filter definition in the   *)
(* caches, which later rows reuse.                                         *)
(***************************************************************************)
PastEnsure(r) == r < i \/ (r = i /\ pc \in { "create_product", "create_price", "create_inventory" })

C8_DryRunSendsNothing ==
  dry_run =>
    /\ log = << >>
    /\ sv_categories = {} /\ sv_filters = {} /\ sv_next = 1
    /\ \A r \in 1..Len(rows) :
         PastEnsure(r) =>
           LET site_key == SiteCacheKey(rows[r])
               site_id == DryId("dry", site_key)
               category_key == << site_id, Lower(rows[r].category_name) >>
           IN  /\ site_key \in DOMAIN site_cache
               /\ site_cache[site_key].id = site_id
               /\ category_key \in DOMAIN category_cache
               /\ category_cache[category_key].id.kind = "dry-cat"
               /\ \A d \in 1..Len(rows[r].filter_definitions) :
                    LET filter_key == << LowerId(category_cache[category_key].id),
                                         rows[r].filter_definitions[d].key >>
                    IN  /\ filter_key \in DOMAIN filter_cache
                        /\ filter_cache[filter_key].id.kind = "dry-filter"

\* the second row found the first row's placeholders
C8_Witness ==
  /\ dry_run
  /\ i = 2
  /\ pc = "create_inventory"
  /\ SiteCacheKey(rows[1]) = SiteCacheKey(rows[2])
  /\ Lower(rows[1].category_name) = Lower(rows[2].category_name)
  /\ rows[1].category_name # rows[2].category_name
  /\ Cardinality(DOMAIN site_cache) = 1
  /\ Cardinality(DOMAIN category_cache) = 1
  /\ Cardinality(DOMAIN filter_cache) = 1

(***************************************************************************)
(* C9.  The rows are validated eagerly: load_rows normalizes every row     *)
(* before the first request is sent; when a row of the file is rejected    *)
(* the invocation ends with a ValueError that names the line number of     *)
(* that row, and no request is sent for any row.                           *)
(***************************************************************************)
\* the number, in the file, of the k-th line after the header
LineNumber(k) == k + 1

BadLines == { k \in 1..Len(csv) : csv[k] # Blank /\ NormalizeError(csv[k]) # None }

FirstBadLine == CHOOSE k \in BadLines : \A m \in BadLines : k <= m

C9_EagerValidation ==
  /\ BadLines # {} => log = << >>
  /\ (BadLines # {} /\ pc # "load") =>
       /\ pc = "failed"
       /\ error.type = "ValueError"
       /\ error.row = LineNumber(FirstBadLine)

\* the same with the number load_rows gives: the row's rank among the rows the
\* reader yields, counted from 2
C9_EagerValidationByRank ==
  /\ BadLines # {} => log = << >>
  /\ (BadLines # {} /\ pc # "load") =>
       /\ pc = "failed"
       /\ error.type = "ValueError"
       /\ error.row = 1 + Cardinality({ k \in 1..FirstBadLine : csv[k] # Blank })

(***************************************************************************)
(* C10.  For every submodule build_service_locks resolves the image so:    *)
(* the entry the image-metadata file has for the service is used, and      *)
(* without one the repository is "<default_registry>/<service name>"; the  *)
(* tag is the tag prefix followed by the first 7 characters of the SHA     *)
(* when a prefix applies (the entry's own, or default_tag_prefix when the  *)
(* service has no entry), else the entry's explicit tag when it has one    *)
(* (a tag that is not None), else the first 7 characters of the SHA; and   *)
(* the git_sha recorded is the full SHA of the submodule.                  *)
(***************************************************************************)
\* the line git printed for the submodule at a path
LineOf(path) == CHOOSE k \in 1..Len(git_status) : git_status[k].path = path

\* the SHA of the submodule at a path, as git printed it
SubmoduleSha(path) == git_status[LineOf(path)].sha

HasEntry(service_name) == service_name \in DOMAIN arg_image_metadata

\* the tag prefix that applies to a service: NoText or empty when none does
PrefixFor(service_name) ==
  IF HasEntry(service_name) THEN arg_image_metadata[service_name].tag_prefix
  ELSE arg_default_tag_prefix

ExpectedRepository(service_name) ==
  IF HasEntry(service_name) THEN arg_image_metadata[service_name].repository
  ELSE RStripSlash(arg_default_registry) \o << "/", service_name >>

ExpectedTag(service_name, sha) ==
  IF Truthy(PrefixFor(service_name)) THEN PrefixFor(service_name) \o SubSeq(sha, 1, 7)
  ELSE IF HasEntry(service_name) /\ arg_image_metadata[service_name].tag # NoText
       THEN arg_image_metadata[service_name].tag
  ELSE SubSeq(sha, 1, 7)

C10_ImageResolution ==
  lk_pc = "built" =>
    \A service_name \in DOMAIN locks :
      LET lock == locks[service_name]
          sha == SubmoduleSha(lock.submodule_path)
      IN  /\ lock.git_sha = sha
          /\ lock.image.repository = ExpectedRepository(service_name)
          /\ lock.image.tag = ExpectedTag(service_name, sha)

\* the same of the submodules git reports without a conflict: their lines
\* carry no "U" before the SHA
Conflicted == { k \in 1..Len(git_status) : git_status[k].flag = "U" }

C10_ImageResolutionWithoutConflict ==
  Conflicted = {} => C10_ImageResolution

C10_Witness ==
  /\ lk_pc = "built"
  /\ Conflicted = {}
  /\ \E a, b \in DOMAIN locks :
       /\ HasEntry(a) /\ Truthy(PrefixFor(a))
       /\ ~HasEntry(b) /\ Truthy(PrefixFor(b))
  /\ \E k \in 1..Len(git_status) : git_status[k].flag = "+"

(***************************************************************************)
(* C11.  One ServiceLock per submodule: without a --services filter the    *)
(* "services" section of the payload holds exactly one entry for every     *)
(* submodule git reports, so that the entries are as many as the           *)
(* submodules and the path and the SHA of every submodule appear in it.    *)
(***************************************************************************)
\* the leaves of the payload's "services" section
ServiceLeaves ==
  { lock_payload[k] : k \in { n \in 1..Len(lock_payload) : lock_payload[n].path[1] = "services" } }

\* the names the "services" section has an entry for
PayloadServices == { leaf.path[2] : leaf \in ServiceLeaves }

\* the entry of a service holds this text under this key
Holds(name, key, text) ==
  \E leaf \in ServiceLeaves : leaf.path = << "services", name, key >> /\ leaf.value = text

PayloadBuilt == lock_payload # << >>

C11_OneLockPerSubmodule ==
  (PayloadBuilt /\ arg_services = NoText) =>
    /\ Cardinality(PayloadServices) = Len(git_status)
    /\ \A k \in 1..Len(git_status) :
         \E name \in PayloadServices :
           /\ Holds(name, "submodule_path", PathText(git_status[k].path))
           /\ Holds(name, "git_sha", git_status[k].sha)

\* the same of the submodules whose directory names differ and that git
\* reports without a conflict
NamesDiffer ==
  \A a, b \in 1..Len(git_status) :
    a # b => PathName(git_status[a].path) # PathName(git_status[b].path)

C11_OneLockPerSubmoduleWhenNamesDiffer ==
  (NamesDiffer /\ Conflicted = {}) => C11_OneLockPerSubmodule

(***************************************************************************)
(* C12.  With a --services filter the lock holds entries only for the      *)
(* services the filter names; and when a requested name matches no         *)
(* submodule, build_service_locks raises the ValueError "Requested         *)
(* services missing from submodules" and no lock file is written.          *)
(***************************************************************************)
Requested == { arg_services[k] : k \in 1..Len(arg_services) }

SubmoduleNames == { PathName(git_status[k].path) : k \in 1..Len(git_status) }

\* load_image_metadata accepts the file
MetadataAccepted ==
  \A service \in DOMAIN arg_image_metadata : Truthy(arg_image_metadata[service].repository)

PastBuildServiceLocks == lk_pc \notin { "load_image_metadata", "build_lock_payload" }

FilteredLock ==
  /\ PayloadBuilt => PayloadServices \subseteq Requested
  /\ (MetadataAccepted /\ PastBuildServiceLocks /\ ~(Requested \subseteq SubmoduleNames)) =>
       /\ lk_pc = "failed"
       /\ lk_error = ValueError(0, "Requested services missing from submodules")
       /\ ~PayloadBuilt
       /\ ~fs_output.exists

LeavesOf(leaves) == { leaves[k] : k \in 1..Len(leaves) }

C13_NoOverwriteWithoutForce ==
  [][ /\ (fs_output.exists /\ ~arg_force) =>
           /\ fs_output' = fs_output
           /\ lk_pc = "dump_lock" => (lk_pc' = "failed" /\ lk_error' = FileExistsError)
      /\ (lk_pc = "dump_lock" /\ (arg_force \/ ~fs_output.exists)) =>
           /\ lk_pc' = "done"
           /\ fs_output'.exists
           /\ LeavesOf(fs_output'.leaves) = LeavesOf(lock_payload)
           /\ Len(fs_output'.leaves) = Len(lock_payload)
    ]_vars

\* dump_lock has refused to overwrite the earlier lock
C13_Witness ==
  /\ lk_pc = "failed"
  /\ lk_error = FileExistsError
  /\ fs_output = OldOutput
  /\ PayloadBuilt

(***************************************************************************)
(* C14.  The lock file is deterministic: a generation with the same        *)
(* submodule SHAs, image metadata, branch, commit, timestamp and options   *)
(* writes the same file, in whatever order git lists the submodules and    *)
(* the metadata file lists the services.                                   *)
(***************************************************************************)
\* the same lines in every order
Permuted(lines) ==
  { [k \in 1..Len(lines) |-> lines[order[k]]] : order \in Orders(1..Len(lines)) }

\* the file a generation writes to a free path, from these lines of git and
\* this order of the metadata file
Generated(status, order) ==
  LET default_registry == RStripSlash(arg_default_registry)
      default_tag_prefix == IF Truthy(arg_default_tag_prefix)
                            THEN arg_default_tag_prefix ELSE NoText
      built == ServiceLocks(ListSubmodules(status), LoadedMetadata(order, arg_image_metadata),
                            arg_services, default_registry, default_tag_prefix)
  IN  FileOf(JsonDump(LockPayload(built)), TRUE)

C14_Deterministic ==
  lk_pc = "done" =>
    \A status \in Permuted(git_status), order \in Orders(DOMAIN arg_image_metadata) :
      Generated(status, order) = fs_output

\* the same of submodules whose directory names differ
C14_DeterministicWhenNamesDiffer == NamesDiffer => C14_Deterministic

(***************************************************************************)
(* C15.  Every key of a row's product_filters is mapped to one filter      *)
(* assignment, which carries the id of the filter known for (the row's     *)
(* category id, the key) and one value field: numericValue when the type   *)
(* of that filter is QUANTITATIVE, textValue otherwise.  When a key has no *)
(* known filter once the definitions were ensured, the row fails with a    *)
(* RuntimeError, and no create-product, create-price or create-inventory   *)
(* request is sent for that row or a later one.                            *)
(***************************************************************************)
\* the filter known for the row's category and a key
Known(key) == FilterCacheKey(category.id, key) \in DOMAIN filter_cache

KnownFilter(key) == filter_cache[FilterCacheKey(category.id, key)]

\* the row is past _ensure_filters_and_map_assignments
Mapped == pc \in { "create_product", "create_price", "create_inventory" }

AssignmentsOfRow ==
  Mapped =>
    LET items == rows[i].product_filters
    IN  /\ Len(filter_assignments) = Len(items)
        /\ \A k \in 1..Len(items) :
             /\ Known(items[k].key)
             /\ filter_assignments[k].filterId = KnownFilter(items[k].key).id
             /\ filter_assignments[k].value = items[k].value
             /\ filter_assignments[k].field =
                  IF KnownFilter(items[k].key).type = "QUANTITATIVE"
                  THEN "numericValue" ELSE "textValue"

\* the row failed in the loop over its product_filters
NoFilterFound == pc = "failed" /\ error = RuntimeError("No filter found for category")

NotANumber == pc = "failed" /\ error = ValueError(0, "could not convert string to float")

NothingCreatedFromRow ==
  \A a \in Requests :
    (log[a].run = run /\ log[a].row >= i) => StepRank(log[a]) < 4

UnderSite ==
  Sending("POST", "/api/catalog/products/categories")
  \cup Sending("POST", "/api/catalog/products")

\* the request's siteId is the id of the site with the slug of its row
SiteOfOwnRow(e, file_rows) ==
  \E s \in SitesBySlug(file_rows[e.row].site_slug) : s.id = e.payload.siteId

C16_SiteOfOwnRow ==
  LET file_rows == FileRows
  IN  \A a \in UnderSite : SiteOfOwnRow(log[a], file_rows)

\* the rows of the file that share a site cache key also share the slug
KeyNamesOneSlug ==
  LET file_rows == FileRows
  IN  \A k, l \in 1..Len(file_rows) :
        SiteCacheKey(file_rows[k]) = SiteCacheKey(file_rows[l])
          => file_rows[k].site_slug = file_rows[l].site_slug

\* what holds of the code: the site is the row's own as long as no two rows
\* of the file give one cache key to two slugs
C16_SiteOfOwnRowWhenKeyNamesOneSlug ==
  C16_SiteOfOwnRow \/ ~KeyNamesOneSlug

\* two rows with different site_keys and the same slug, both created under
\* the one site of that slug
C16_SameSlugWitness ==
  LET file_rows == FileRows
  IN  \E a, b \in Sending("POST", "/api/catalog/products") :
        /\ log[a].run = log[b].run
        /\ log[a].row = 1
        /\ log[b].row = 2
        /\ file_rows[1].site_key # file_rows[2].site_key
        /\ file_rows[1].site_slug = file_rows[2].site_slug
        /\ log[a].payload.siteId = log[b].payload.siteId
        /\ SiteOfOwnRow(log[b], file_rows)

(***************************************************************************)
(* C17.  A non-dry invocation that completes without error over n rows     *)
(* has sent exactly n create-product, n create-price and n                 *)
(* create-inventory POSTs, one of each per row whatever the SKUs and names *)
(* of the rows, and the productId of a row's price and inventory requests  *)
(* is the id that row's create-product response returned.                  *)
(***************************************************************************)
\* the POSTs to `path` that invocation r sent
PostsOf(r, path) == { a \in Sending("POST", path) : log[a].run = r }

\* invocation r ran to the end of process_rows
Completed(r) == r < run \/ (r = run /\ pc = "done")

C17_OneOfEachPerRow ==
  ~dry_run =>
    \A r \in 1..run :
      Completed(r) =>
        LET n == Len(Records(csv))
            products == PostsOf(r, "/api/catalog/products")
            prices == PostsOf(r, "/api/prices")
            inventories == PostsOf(r, "/api/inventory")
        IN  /\ \A posts \in { products, prices, inventories } :
                 /\ Cardinality(posts) = n
                 /\ \A k \in 1..n : \E a \in posts : log[a].row = k
            /\ \A b \in prices \cup inventories :
                 \E a \in products :
                   /\ log[a].row = log[b].row
                   /\ log[a].answer.ok
                   /\ log[b].payload.productId = log[a].answer.body.id

\* a completed non-dry invocation over two rows of the same SKU and name
C17_Witness ==
  /\ ~dry_run
  /\ run = 1
  /\ pc = "done"
  /\ Len(rows) = 2
  /\ rows[1].product_sku = rows[2].product_sku
  /\ rows[1].product_name = rows[2].product_name
  /\ Cardinality(PostsOf(1, "/api/catalog/products")) = 2
  /\ Cardinality(PostsOf(1, "/api/inventory")) = 2

=============================================================================
